---- MODULE Spec2Model ----
(***************************************************************************)
(* Racing episode environment (train.py: RacingEnv), the vehicle dynamics  *)
(* integrator (f1_physics_simulator.py: F1PhysicsSimulator) and the track  *)
(* knowledge base (ai_racing_agent.py: MonacoTrackKnowledge).              *)
(*                                                                         *)
(* The program computes in floating point.  The model computes in fixed    *)
(* point, with these units:                                                *)
(*   lengths, positions, distances   millimetres                           *)
(*   speeds                          millimetres per second                *)
(*   headings                        microradians                          *)
(*   forces                          newtons                               *)
(*   power                           units of 10 watts                     *)
(*   time                            ticks of dt = 0.01 s                  *)
(*   throttle, brake                 percent                               *)
(*   steering, action components     thousandths                           *)
(*   rewards                         hundredths                            *)
(* All intermediate values stay below 2^31.                                *)
(***************************************************************************)
EXTENDS Integers, Sequences, FiniteSets, TLC

----------------------------------------------------------------------------
(* Arithmetic helpers (Python / numpy built-ins)                           *)

Abs(n) == IF n < 0 THEN -n ELSE n

Min(a, b) == IF a < b THEN a ELSE b

Max(a, b) == IF a > b THEN a ELSE b

\* np.sign
Sign(n) == IF n > 0 THEN 1 ELSE IF n < 0 THEN -1 ELSE 0

\* np.clip(v, lo, hi)
Clip(v, lo, hi) == IF v < lo THEN lo ELSE IF v > hi THEN hi ELSE v

\* n / d truncated toward zero (the fixed-point image of a float quotient or
\* of int(...))
Quot(n, d) == IF n >= 0 THEN n \div d ELSE -((-n) \div d)

\* n / d rounded to nearest
Round(n, d) == IF n >= 0 THEN (2 * n + d) \div (2 * d) ELSE -((2 * (-n) + d) \div (2 * d))

\* F(v), with v evaluated once: a local variable of the code
With(v, F(_)) == CHOOSE r \in {F(w) : w \in {v}} : TRUE

RECURSIVE SqrtSearch(_, _, _)
SqrtSearch(n, lo, hi) ==
    IF lo >= hi THEN lo
    ELSE With((lo + hi + 1) \div 2, LAMBDA mid :
             IF mid * mid <= n THEN SqrtSearch(n, mid, hi) ELSE SqrtSearch(n, lo, mid - 1))

\* np.sqrt / math.sqrt: floor of the square root (n < 2^31)
Sqrt(n) == SqrtSearch(n, 0, 46340)

\* dx^2 + dy^2, the argument of every sqrt((..)**2 + (..)**2) in the program.
\* sqrt is monotone: sqrt(p) < sqrt(q) and sqrt(p) > c are decided on the
\* squares, p < q and p > c * c.
Hyp2(dx, dy) == dx * dx + dy * dy

\* float('inf') as a squared distance
Inf2 == 2147483647

Pi == 3141593

TwoPi == 6283185

\* Bhaskara's approximation of sin on [0, pi]; m in milliradians, result in
\* thousandths
SinHalf(m) ==
    With(m * (3142 - m), LAMBDA p :
        Round(16000 * (p \div 100), (49360820 - 4 * p) \div 100))

\* math.sin of an angle in microradians, in thousandths
Sin(h) ==
    With((h % TwoPi) \div 1000, LAMBDA m :
        IF m <= 3142 THEN SinHalf(m) ELSE -SinHalf(Min(m - 3142, 3142)))

\* math.cos of an angle in microradians, in thousandths
Cos(h) == Sin(h + 1570796)

\* math.tan of an angle in [0, pi/2) microradians, in thousandths
Tan(h) == (Sin(h) * 1000) \div Cos(h)

\* arctan of q/1000 for 0 <= q <= 1000, in microradians
\* (atan z = z*(pi/4 + 0.273*(1 - z)) to within 0.004 rad)
ArctanUnit(q) == (q * (785398 + 273 * (1000 - q))) \div 1000

\* np.arctan2(dy, dx) in microradians, in (-pi, pi]
Arctan2(dy, dx) ==
    With(IF dx = 0 /\ dy = 0 THEN 0
         ELSE IF Abs(dy) <= Abs(dx) THEN ArctanUnit((Abs(dy) * 1000) \div Abs(dx))
         ELSE 1570796 - ArctanUnit((Abs(dx) * 1000) \div Abs(dy)),
         LAMBDA a :
             IF dy < 0 THEN -(IF dx >= 0 THEN a ELSE Pi - a)
             ELSE IF dx >= 0 THEN a ELSE Pi - a)

\* math.exp(-u) for 0 <= u <= 0.5; u and the result in ten-thousandths
\* (the series to the fourth power)
ExpNeg(u) ==
    With((u * u) \div 20000, LAMBDA t2 :
    With((t2 * u) \div 30000, LAMBDA t3 :
        10000 - u + t2 - t3 + (t3 * u) \div 40000))

----------------------------------------------------------------------------
(* ai_racing_agent.py: MonacoTrackKnowledge                                *)
(* A telemetry sample is a record with x, y, z, speed (km/h), throttle and *)
(* brake, and distance when the source data carries it.                    *)

\* __init__ lines 80-91: the cumulative 3-D length when distance is absent
RECURSIVE compute_distance(_, _, _, _)
compute_distance(telemetry, i, distance, out) ==
    IF i > Len(telemetry) THEN out
    ELSE LET point == telemetry[i]
             d == IF i > 1
                  THEN LET prev == telemetry[i - 1]
                           h == Sqrt(Hyp2(point.x - prev.x, point.y - prev.y))
                       IN distance + Sqrt(Hyp2(h, point.z - prev.z))
                  ELSE distance
         IN compute_distance(telemetry, i + 1, d,
                Append(out, [x |-> point.x, y |-> point.y, z |-> point.z,
                             speed |-> point.speed, throttle |-> point.throttle,
                             brake |-> point.brake, distance |-> d]))

RECURSIVE MaxDistance(_, _)
MaxDistance(telemetry, i) ==
    IF i = Len(telemetry) THEN telemetry[i].distance
    ELSE Max(telemetry[i].distance, MaxDistance(telemetry, i + 1))

extract_racing_line(telemetry) ==
    [i \in 1..Len(telemetry) |->
        [distance |-> telemetry[i].distance, x |-> telemetry[i].x, y |-> telemetry[i].y,
         speed |-> telemetry[i].speed, throttle |-> telemetry[i].throttle,
         brake |-> telemetry[i].brake]]

\* The end of the braking run that starts at i: the first j >= i not braking
RECURSIVE BrakingEnd(_, _)
BrakingEnd(telemetry, j) ==
    IF j <= Len(telemetry) /\ telemetry[j].brake # 0 THEN BrakingEnd(telemetry, j + 1) ELSE j

RECURSIVE find_braking_zones(_, _, _)
find_braking_zones(telemetry, i, braking_zones) ==
    IF i > Len(telemetry) THEN braking_zones
    ELSE LET t == telemetry[i]
         IN IF t.brake # 0 /\ (i = 1 \/ telemetry[i - 1].brake = 0)
            THEN LET j == BrakingEnd(telemetry, i)
                 IN IF j <= Len(telemetry)
                    THEN find_braking_zones(telemetry, i + 1,
                             Append(braking_zones,
                                    [start_distance |-> t.distance,
                                     end_distance |-> telemetry[j].distance,
                                     entry_speed |-> t.speed,
                                     exit_speed |-> telemetry[j].speed,
                                     braking_distance |-> telemetry[j].distance - t.distance]))
                    ELSE find_braking_zones(telemetry, i + 1, braking_zones)
            ELSE find_braking_zones(telemetry, i + 1, braking_zones)

window == 20

\* min(speeds) over the 0-based range(i - window, i + window), at 1-based k
RECURSIVE MinSpeed(_, _, _)
MinSpeed(telemetry, lo, hi) ==
    IF lo = hi THEN telemetry[lo].speed
    ELSE Min(telemetry[lo].speed, MinSpeed(telemetry, lo + 1, hi))

\* k is the 1-based index of the 0-based i = k - 1 in range(window, len - window)
RECURSIVE find_apex_points(_, _, _)
find_apex_points(telemetry, k, apexes) ==
    IF k > Len(telemetry) - window THEN apexes
    ELSE IF telemetry[k].speed = MinSpeed(telemetry, k - window, k + window - 1)
            /\ telemetry[k].speed < 150
         THEN find_apex_points(telemetry, k + 1,
                  Append(apexes, [distance |-> telemetry[k].distance, x |-> telemetry[k].x,
                                  y |-> telemetry[k].y, speed |-> telemetry[k].speed]))
         ELSE find_apex_points(telemetry, k + 1, apexes)

\* The first braking zone with start < apex < end + 100 (metres), or 0
RECURSIVE MatchingZone(_, _, _)
MatchingZone(braking_zones, apex, n) ==
    IF n > Len(braking_zones) THEN 0
    ELSE IF braking_zones[n].start_distance < apex.distance
            /\ apex.distance < braking_zones[n].end_distance + 100000
         THEN n
         ELSE MatchingZone(braking_zones, apex, n + 1)

RECURSIVE analyze_critical_turns(_, _, _, _)
analyze_critical_turns(apex_points, braking_zones, a, turns) ==
    IF a > Len(apex_points) THEN turns
    ELSE LET apex == apex_points[a]
             n == MatchingZone(braking_zones, apex, 1)
         IN IF n # 0
            THEN analyze_critical_turns(apex_points, braking_zones, a + 1,
                     Append(turns, [apex_distance |-> apex.distance,
                                    apex_speed |-> apex.speed,
                                    braking_point |-> braking_zones[n].start_distance,
                                    braking_distance |-> braking_zones[n].braking_distance,
                                    entry_speed |-> braking_zones[n].entry_speed,
                                    apex_coords |-> <<apex.x, apex.y>>]))
            ELSE analyze_critical_turns(apex_points, braking_zones, a + 1, turns)

\* MonacoTrackKnowledge.__init__: the track built from a loaded sample sequence
MonacoTrackKnowledge(data) ==
    LET telemetry == IF "distance" \in DOMAIN data[1] THEN data
                     ELSE compute_distance(data, 1, 0, <<>>)
        braking_zones == find_braking_zones(telemetry, 1, <<>>)
        apex_points == find_apex_points(telemetry, window + 1, <<>>)
    IN [telemetry |-> telemetry,
        track_length |-> MaxDistance(telemetry, 1),
        racing_line |-> extract_racing_line(telemetry),
        braking_zones |-> braking_zones,
        apex_points |-> apex_points,
        critical_turns |-> analyze_critical_turns(apex_points, braking_zones, 1, <<>>)]

\* The scan of get_nearest_line_point with line 200 as dist <= min_dist: of
\* equally near points the last one wins
RECURSIVE NearestScanLast(_, _, _, _, _, _)
NearestScanLast(racing_line, x, y, i, min_dist, nearest) ==
    IF i > Len(racing_line) THEN nearest
    ELSE With(Hyp2(racing_line[i].x - x, racing_line[i].y - y), LAMBDA dist :
             IF dist <= min_dist
             THEN NearestScanLast(racing_line, x, y, i + 1, dist, i)
             ELSE NearestScanLast(racing_line, x, y, i + 1, min_dist, nearest))

\* get_nearest_line_point: the linear scan, a strictly smaller distance wins
RECURSIVE NearestScan(_, _, _, _, _, _)
NearestScan(racing_line, x, y, i, min_dist, nearest) ==
    IF i > Len(racing_line) THEN nearest
    ELSE With(Hyp2(racing_line[i].x - x, racing_line[i].y - y), LAMBDA dist :
             IF dist < min_dist
             THEN NearestScan(racing_line, x, y, i + 1, dist, i)
             ELSE NearestScan(racing_line, x, y, i + 1, min_dist, nearest))

\* The 1-based index in the racing line of the point the scan returns
NearestIndex(track, x, y) == NearestScan(track.racing_line, x, y, 1, Inf2, 0)

get_nearest_line_point(track, x, y) == track.racing_line[NearestIndex(track, x, y)]

\* The scan of get_upcoming_turn with line 209 as apex_distance >=
\* current_distance
RECURSIVE UpcomingFromAtOrPast(_, _, _)
UpcomingFromAtOrPast(critical_turns, current_distance, n) ==
    IF n > Len(critical_turns) THEN 0
    ELSE IF critical_turns[n].apex_distance >= current_distance THEN n
    ELSE UpcomingFromAtOrPast(critical_turns, current_distance, n + 1)

RECURSIVE get_upcoming_turn_from(_, _, _)
get_upcoming_turn_from(critical_turns, current_distance, n) ==
    IF n > Len(critical_turns) THEN 0
    ELSE IF critical_turns[n].apex_distance > current_distance THEN n
    ELSE get_upcoming_turn_from(critical_turns, current_distance, n + 1)

\* get_upcoming_turn: the 1-based index in critical_turns of the turn
\* returned, 0 for None
get_upcoming_turn(track, current_distance) ==
    get_upcoming_turn_from(track.critical_turns, current_distance, 1)

\* An index search that stops at the first sample at or past the distance
\* and keeps the initial best_idx when there is none
TelemetryIndexAtOrPast(track, distance) ==
    IF \E i \in 1..Len(track.telemetry) : track.telemetry[i].distance >= distance
    THEN CHOOSE i \in 1..Len(track.telemetry) :
             /\ track.telemetry[i].distance >= distance
             /\ \A j \in 1..(i - 1) : track.telemetry[j].distance < distance
    ELSE 1

\* _get_telemetry_index (1-based): the loop keeps a sample only when its
\* |distance - d| is strictly less than the best so far, so it returns the
\* first sample with the least |distance - d|; best_idx stays at the first
\* index when there is no sample
get_telemetry_index(track, distance) ==
    IF track.telemetry = <<>> THEN 1
    ELSE CHOOSE i \in 1..Len(track.telemetry) :
             /\ \A j \in 1..Len(track.telemetry) :
                    Abs(track.telemetry[i].distance - distance)
                        <= Abs(track.telemetry[j].distance - distance)
             /\ \A j \in 1..(i - 1) :
                    Abs(track.telemetry[j].distance - distance)
                        > Abs(track.telemetry[i].distance - distance)

\* The window of lines 229-232 with its near end closed: apex_distance >=
\* current_distance
UpcomingTurnsAtOrPast(track, current_distance, lookahead) ==
    SelectSeq(track.critical_turns,
              LAMBDA turn : current_distance <= turn.apex_distance
                            /\ turn.apex_distance <= current_distance + lookahead)

\* The turns of get_track_section_info's lookahead window (lines 229-232)
upcoming_turns(track, current_distance, lookahead) ==
    SelectSeq(track.critical_turns,
              LAMBDA turn : current_distance < turn.apex_distance
                            /\ turn.apex_distance <= current_distance + lookahead)

\* get_track_section_info(...)['next_turn']; <<>> stands for None
next_turn_of(track, current_distance, lookahead) ==
    With(upcoming_turns(track, current_distance, lookahead), LAMBDA u :
        IF Len(u) > 0 THEN <<u[1]>> ELSE <<>>)

\* _analyze_curvature's classes of a sample by its speed (lines 283-296);
\* the severity in tenths
curve_type(speed) ==
    IF speed > 250 THEN "straight"
    ELSE IF speed > 200 THEN "fast_corner"
    ELSE IF speed > 150 THEN "medium_corner"
    ELSE "slow_corner"

severity(speed) ==
    IF speed > 250 THEN 0 ELSE IF speed > 200 THEN 3 ELSE IF speed > 150 THEN 6 ELSE 9

\* The last sample the loop of _analyze_curvature reaches from start_idx:
\* it runs over at most 200 samples and breaks at the first one beyond limit
ScanEnd(telemetry, start_idx, limit) ==
    With(Min(start_idx + 199, Len(telemetry)), LAMBDA stop :
        CHOOSE j \in start_idx..stop :
            /\ \A i \in start_idx..j : telemetry[i].distance <= limit
            /\ j = stop \/ telemetry[j + 1].distance > limit)

\* The zone the loop builds from sample first to sample last, samples of
\* one class
CurvatureZone(telemetry, first, last) ==
    [type |-> curve_type(telemetry[first].speed),
     severity |-> severity(telemetry[first].speed),
     start_distance |-> telemetry[first].distance,
     end_distance |-> telemetry[last].distance,
     min_speed |-> CHOOSE v \in {telemetry[j].speed : j \in first..last} :
                       \A j \in first..last : v <= telemetry[j].speed,
     entry_speed |-> telemetry[first].speed]

\* _analyze_curvature(start_idx, lookahead), start_idx 1-based: a new zone
\* opens at start_idx and wherever the class differs from that of the
\* sample before; a zone lasts to the sample before the next one opens
analyze_curvature(track, start_idx, lookahead) ==
    With(ScanEnd(track.telemetry, start_idx,
                 track.telemetry[start_idx].distance + lookahead), LAMBDA end :
    With({i \in start_idx..end :
             \/ i = start_idx
             \/ curve_type(track.telemetry[i].speed)
                    # curve_type(track.telemetry[i - 1].speed)}, LAMBDA opens :
        [k \in 1..Cardinality(opens) |->
            With(CHOOSE i \in opens : Cardinality({j \in opens : j < i}) = k - 1,
                 LAMBDA first :
                CurvatureZone(track.telemetry, first,
                    CHOOSE last \in first..end :
                        /\ last = end \/ last + 1 \in opens
                        /\ \A j \in (first + 1)..last : j \notin opens))]))

\* _calculate_speed_targets(start_idx, lookahead): one target every 50 m of
\* range(0, int(lookahead), 50)
calculate_speed_targets(track, start_idx, lookahead) ==
    [k \in 1..((lookahead \div 1000 + 49) \div 50) |->
        With(track.telemetry[get_telemetry_index(track,
                 track.telemetry[start_idx].distance + (k - 1) * 50000)], LAMBDA point :
            [distance |-> point.distance,
             distance_ahead |-> (k - 1) * 50000,
             target_speed |-> point.speed,
             recommended_throttle |-> point.throttle,
             recommended_brake |-> point.brake])]

\* _get_racing_line_strategy; next_turn is <<>> for None, else <<turn>>
get_racing_line_strategy(current_distance, next_turn) ==
    IF next_turn = <<>>
    THEN [strategy |-> "maximum_attack", positioning |-> "center_track",
          risk_level |-> "low"]
    ELSE With(next_turn[1].braking_point - current_distance, LAMBDA distance_to_turn :
        IF distance_to_turn > 150000
        THEN [strategy |-> "straight_line_speed", positioning |-> "setup_for_turn",
              risk_level |-> "low", target_speed |-> next_turn[1].entry_speed]
        ELSE IF distance_to_turn > 50000
        THEN [strategy |-> "prepare_braking", positioning |-> "wide_for_entry",
              risk_level |-> "medium", braking_point |-> next_turn[1].braking_point,
              target_entry_speed |-> next_turn[1].entry_speed]
        ELSE IF distance_to_turn > 0
        THEN [strategy |-> "braking_zone", positioning |-> "commit_to_line",
              risk_level |-> "high", target_apex_speed |-> next_turn[1].apex_speed]
        ELSE IF next_turn[1].apex_distance - current_distance > 0
        THEN [strategy |-> "apex_approach", positioning |-> "hit_apex",
              risk_level |-> "very_high", target_apex_speed |-> next_turn[1].apex_speed]
        ELSE [strategy |-> "corner_exit", positioning |-> "track_out_wide",
              risk_level |-> "medium", focus |-> "exit_speed"])

\* _classify_section
classify_section(current_distance, next_turn) ==
    IF next_turn = <<>> THEN "final_straight"
    ELSE With(next_turn[1].braking_point - current_distance, LAMBDA distance_to_braking :
         With(next_turn[1].apex_distance - current_distance, LAMBDA distance_to_apex :
             IF distance_to_braking > 100000 THEN "straight"
             ELSE IF distance_to_braking > 0 THEN "braking_approach"
             ELSE IF distance_to_apex > 0 THEN "corner_entry"
             ELSE IF distance_to_apex > -50000 THEN "apex_zone"
             ELSE "corner_exit"))

\* What a call returns that raises instead
Raised(exception) == [error |-> exception]

\* get_track_section_info(current_distance, lookahead): the dict returned,
\* None as <<>>; track_progress_pct in whole percent.  The division of line
\* 248 raises on a track of length zero.
get_track_section_info(track, current_distance, lookahead) ==
    IF track.track_length = 0 THEN Raised("ZeroDivisionError")
    ELSE With(get_telemetry_index(track, current_distance), LAMBDA current_idx :
         With(upcoming_turns(track, current_distance, lookahead), LAMBDA upcoming :
         With(IF Len(upcoming) > 0 THEN <<upcoming[1]>> ELSE <<>>, LAMBDA next_turn :
             [current_distance |-> current_distance,
              track_progress_pct |-> (current_distance * 100) \div track.track_length,
              next_turn |-> next_turn,
              upcoming_turns |-> upcoming,
              distance_to_next_turn |->
                  IF next_turn # <<>>
                  THEN <<next_turn[1].braking_point - current_distance>> ELSE <<>>,
              curvature_zones |-> analyze_curvature(track, current_idx, lookahead),
              speed_targets |-> calculate_speed_targets(track, current_idx, lookahead),
              racing_line_strategy |-> get_racing_line_strategy(current_distance, next_turn),
              section_type |-> classify_section(current_distance, next_turn)])))

\* The lookahead get_track_section_info takes by default (line 213)
default_lookahead == 200000

\* The steering angle of get_optimal_speed_and_angle (lines 443-463) at the
\* 1-based sample idx, in whole degrees
reference_steering_angle(telemetry, idx) ==
    IF idx > 1 /\ idx < Len(telemetry)
    THEN With(Arctan2(telemetry[idx].y - telemetry[idx - 1].y,
                      telemetry[idx].x - telemetry[idx - 1].x), LAMBDA angle1 :
         With(Arctan2(telemetry[idx + 1].y - telemetry[idx].y,
                      telemetry[idx + 1].x - telemetry[idx].x), LAMBDA angle2 :
             Max(-45, Min(45, Quot((angle2 - angle1) * 180, Pi)))))
    ELSE 0

\* get_optimal_speed_and_angle(current_distance)
get_optimal_speed_and_angle(track, current_distance) ==
    With(get_telemetry_index(track, current_distance), LAMBDA idx :
    With(get_track_section_info(track, current_distance, default_lookahead),
         LAMBDA section_info :
        IF "error" \in DOMAIN section_info THEN section_info
        ELSE With(track.telemetry[idx], LAMBDA reference_point :
            [optimal_speed |-> reference_point.speed,
             steering_angle |-> reference_steering_angle(track.telemetry, idx),
             section_type |-> section_info.section_type,
             reference_throttle |-> reference_point.throttle,
             reference_brake |-> reference_point.brake,
             qualifying_speed |-> reference_point.speed,
             race_speed |-> (reference_point.speed * 97) \div 100,
             overtaking_speed |-> (reference_point.speed * 102) \div 100,
             defending_speed |-> (reference_point.speed * 98) \div 100,
             wet_speed |-> (reference_point.speed * 85) \div 100,
             next_turn_info |-> section_info.next_turn,
             recommended_strategy |-> section_info.racing_line_strategy])))

\* The queries with current_distance consuming the turns the car has passed
QueriedDroppingPassed(track, call, args) ==
    IF call = "get_nearest_line_point" THEN track
    ELSE [track EXCEPT !.critical_turns =
              SelectSeq(@, LAMBDA turn : turn.apex_distance > args[1])]

\* The object after one of the queries get_nearest_line_point,
\* get_upcoming_turn, get_track_section_info, get_optimal_speed_and_angle
\* (lines 193-478): none of them assigns an attribute of self or changes one
\* of its lists
Queried(track, call, args) == track

\* __init__ on an empty sample sequence: self.telemetry[0] raises at line 81
\* and no object exists; the attributes are those never assigned
NotConstructed ==
    [error |-> "IndexError", telemetry |-> <<>>, track_length |-> 0,
     racing_line |-> <<>>, braking_zones |-> <<>>, apex_points |-> <<>>,
     critical_turns |-> <<>>]

\* MonacoTrackKnowledge(path) on a file whose telemetry is data
Load(data) == IF data = <<>> THEN NotConstructed ELSE MonacoTrackKnowledge(data)

\* The construction returned an object
Constructed(track) == "error" \notin DOMAIN track

----------------------------------------------------------------------------
(* f1_physics_simulator.py: CarPhysics, the vehicle parameters             *)

mass == 798

\* 0.9, in tenths
drag_coefficient == 9

\* 1.5 m^2, in tenths
frontal_area == 15

\* 3.0, in tenths
downforce_coefficient == 30

\* 710000 W, in units of 10 W
max_power == 71000

max_rpm == 15000

idle_rpm == 5000

power_curve_peak == 11000

\* in hundredths
gear_ratios == <<350, 280, 220, 180, 150, 130, 115, 100>>

\* 3.5, in tenths
final_drive == 35

\* newtons
max_brake_force == 18000

\* 1.4, in hundredths
tire_grip_coefficient == 140

(* f1_physics_simulator.py: F1PhysicsSimulator.__init__                    *)

\* dt = 0.01 s: ticks per second
TicksPerSecond == 100

\* 1.2 kg/m^3, in tenths
air_density == 12

\* 9.81 m/s^2, in hundredths
gravity == 981

(* f1_physics_simulator.py: CarState, a freshly constructed vehicle state  *)
CarState ==
    [x |-> 0, y |-> 0, heading |-> 0,
     speed |-> 0, vx |-> 0, vy |-> 0,
     throttle |-> 0, brake |-> 0, steering |-> 0,
     gear |-> 1, rpm |-> 0, tire_temp |-> 80, fuel_kg |-> 100,
     lap_time |-> 0, distance |-> 0]

\* Power in units of 10 W from engine speed and throttle
calculate_engine_power(rpm, throttle) ==
    With(IF rpm < idle_rpm THEN idle_rpm ELSE IF rpm > max_rpm THEN max_rpm ELSE rpm,
         LAMBDA r :
    \* rpm_ratio - 1.0, in ten-thousandths
    With((r * 10000) \div power_curve_peak - 10000, LAMBDA d :
    \* power_factor = exp(-0.5 * d^2 / 0.3)
    With(ExpNeg((d * d) \div 6000), LAMBDA power_factor :
        (((max_power * power_factor) \div 10000) * throttle) \div 100)))

\* [drag, downforce] in newtons from speed
calculate_aerodynamic_forces(speed) ==
    \* 0.5 * air_density * speed^2, in hundredths of a newton
    With((air_density * (((speed \div 10) * (speed \div 10)) \div 100)) \div 20, LAMBDA q :
        [drag      |-> (q * drag_coefficient * frontal_area) \div 10000,
         downforce |-> (q * downforce_coefficient * frontal_area) \div 10000])

\* Braking force in newtons, limited by tyre grip
calculate_braking_force(brake_input, speed, downforce) ==
    With((mass * gravity) \div 100 + downforce, LAMBDA normal_force :
    With((normal_force * tire_grip_coefficient) \div 100, LAMBDA max_brake :
        Min((max_brake_force * brake_input) \div 100, max_brake)))

\* CarPhysics as the program constructs it (F1PhysicsSimulator() in train.py
\* line 107): the fields a parameter set may override
CarPhysics == [gear_ratios |-> gear_ratios]

VARIABLES
    physics  \* F1PhysicsSimulator.physics, the parameter set of the simulator

\* Lines 170-224 with the engine force taken as power / speed (as the torque
\* figure near standstill), without the min(..., max_traction) of lines 213
\* and 221
EngineForceUncapped(state, normal_force) ==
    IF state.gear >= 1 /\ state.gear <= Len(physics.gear_ratios)
    THEN With(IF state.speed > 100
              THEN (((state.speed * 600) \div 2073) * physics.gear_ratios[state.gear]
                    * final_drive) \div 10000
              ELSE idle_rpm, LAMBDA rpm0 :
         With(Max(idle_rpm, Min(rpm0, max_rpm)), LAMBDA rpm :
         With(calculate_engine_power(rpm, state.throttle), LAMBDA power :
             [rpm |-> rpm,
              engine_force |->
                  IF state.speed > 500
                  THEN (power * 10000) \div state.speed
                  ELSE (10000 * state.throttle) \div 100])))
    ELSE [rpm |-> idle_rpm, engine_force |-> 0]

\* Engine speed and engine force of update_car_state (lines 170-224)
EngineForce(state, normal_force) ==
    IF state.gear >= 1 /\ state.gear <= Len(physics.gear_ratios)
    THEN \* wheel revolutions per minute in tenths (2 * pi * 0.33 m = 2073 mm),
         \* times the ratios, clamped
         With(IF state.speed > 100
              THEN (((state.speed * 600) \div 2073) * physics.gear_ratios[state.gear]
                    * final_drive)
                   \div 10000
              ELSE idle_rpm, LAMBDA rpm0 :
         With(Max(idle_rpm, Min(rpm0, max_rpm)), LAMBDA rpm :
         With(calculate_engine_power(rpm, state.throttle), LAMBDA power :
         \* speed * 3.6, in thousandths of km/h
         With((state.speed * 36) \div 10, LAMBDA speed_kmh :
             [rpm |-> rpm,
              engine_force |->
                  IF speed_kmh < 100000
                  THEN With(IF state.speed > 500
                            THEN (power * 10000) \div state.speed
                            ELSE (10000 * state.throttle) \div 100, LAMBDA desired_force :
                       \* base_grip = 0.85; effective grip in ten-thousandths
                       With(8500 + ((tire_grip_coefficient * 100 - 8500) * speed_kmh)
                                   \div 100000, LAMBDA effective_grip :
                       With((normal_force * effective_grip) \div 10000, LAMBDA max_traction :
                           Min(desired_force, max_traction))))
                  ELSE With((normal_force * tire_grip_coefficient) \div 100,
                            LAMBDA max_traction :
                       With((power * 10000) \div state.speed, LAMBDA engine_force :
                           Min(engine_force, max_traction)))]))))
    ELSE [rpm |-> idle_rpm, engine_force |-> 0]

\* The heading after the turn of update_car_state (lines 239-245)
Turn(state, speed) ==
    IF Abs(state.steering) > 10
    THEN \* |steering| * radians(30), in microradians
         With((Abs(state.steering) * 5236) \div 10, LAMBDA steering_angle :
         \* speed / turning_radius * dt; wheelbase 3600 mm
         With((speed * Tan(steering_angle) * 10) \div (36 * TicksPerSecond), LAMBDA dh :
             (state.heading + Sign(state.steering) * dh) % TwoPi))
    ELSE state.heading

\* The gear after the automatic shift of update_car_state (lines 258-261)
Shift(gear, rpm) ==
    IF rpm > (max_rpm * 95) \div 100 /\ gear < 8 THEN gear + 1
    ELSE IF rpm < (max_rpm * 50) \div 100 /\ gear > 1 THEN gear - 1
    ELSE gear

\* The change of speed over one tick (lines 164-236: acceleration * dt), in
\* mm/s, of a state whose controls are already clipped
SpeedChange(state) ==
    With(calculate_aerodynamic_forces(state.speed), LAMBDA aero :
    With(EngineForce(state, (mass * gravity) \div 100 + aero.downforce), LAMBDA eng :
        Round((eng.engine_force - aero.drag
               - calculate_braking_force(state.brake, state.speed, aero.downforce)) * 1000,
              mass * TicksPerSecond)))

\* update_car_state with line 236 as state.speed + acceleration * dt, without
\* the max(0, ...)
UpdateWithoutClamp(state0, throttle, brake, steering) ==
    With([state0 EXCEPT !.throttle = Clip(throttle, 0, 100),
                        !.brake = Clip(brake, 0, 100),
                        !.steering = Clip(steering, -1000, 1000)], LAMBDA state :
    With(EngineForce(state, (mass * gravity) \div 100
                            + calculate_aerodynamic_forces(state.speed).downforce),
         LAMBDA eng :
    With(state.speed + SpeedChange(state), LAMBDA speed :
    With(Turn(state, speed), LAMBDA heading :
    With(Quot(speed * Cos(heading), 1000), LAMBDA vx :
    With(Quot(speed * Sin(heading), 1000), LAMBDA vy :
        [state EXCEPT !.rpm = eng.rpm,
                      !.speed = speed,
                      !.heading = heading,
                      !.vx = vx,
                      !.vy = vy,
                      !.x = state.x + Quot(vx, TicksPerSecond),
                      !.y = state.y + Quot(vy, TicksPerSecond),
                      !.distance = state.distance + Quot(speed, TicksPerSecond),
                      !.lap_time = state.lap_time + 1,
                      !.gear = Shift(state.gear, eng.rpm)]))))))

\* F1PhysicsSimulator.update_car_state: one tick of the dynamics
update_car_state(state0, throttle, brake, steering) ==
    With([state0 EXCEPT !.throttle = Clip(throttle, 0, 100),
                        !.brake = Clip(brake, 0, 100),
                        !.steering = Clip(steering, -1000, 1000)], LAMBDA state :
    With(calculate_aerodynamic_forces(state.speed), LAMBDA aero :
    With(EngineForce(state, (mass * gravity) \div 100 + aero.downforce), LAMBDA eng :
    With(eng.engine_force - aero.drag
         - calculate_braking_force(state.brake, state.speed, aero.downforce),
         LAMBDA net_force :
    \* speed + acceleration * dt, in mm/s
    With(Max(0, state.speed + Round(net_force * 1000, mass * TicksPerSecond)),
         LAMBDA speed :
    With(Turn(state, speed), LAMBDA heading :
    With(Quot(speed * Cos(heading), 1000), LAMBDA vx :
    With(Quot(speed * Sin(heading), 1000), LAMBDA vy :
        [state EXCEPT !.rpm = eng.rpm,
                      !.speed = speed,
                      !.heading = heading,
                      !.vx = vx,
                      !.vy = vy,
                      !.x = state.x + Quot(vx, TicksPerSecond),
                      !.y = state.y + Quot(vy, TicksPerSecond),
                      !.distance = state.distance + speed \div TicksPerSecond,
                      !.lap_time = state.lap_time + 1,
                      !.gear = Shift(state.gear, eng.rpm)]))))))))

----------------------------------------------------------------------------
(* The loaded data: reference laps and boundary files                      *)

Sample(distance, x, y, speed, throttle, brake) ==
    [distance |-> distance, x |-> x, y |-> y, z |-> 0,
     speed |-> speed, throttle |-> throttle, brake |-> brake]

\* An open lap: a straight, then a hairpin to the left.  A car that keeps
\* straight on leaves the line behind; full left lock from the start runs
\* on to the last sample.
HairpinLap ==
    <<Sample(0, 0, 0, 30, 100, 0),
      Sample(800, 800, 0, 60, 100, 0),
      Sample(1600, 1600, 0, 90, 100, 0),
      Sample(2400, 2400, 0, 120, 100, 0),
      Sample(3200, 3200, 0, 100, 0, 100),
      Sample(4000, 4000, 0, 70, 0, 100),
      Sample(10579, 6200, 6200, 60, 50, 0),
      Sample(19397, 0, 12470, 90, 100, 0)>>

\* An open lap along a straight: a car that keeps straight on runs past the
\* last sample and away from it
SprintLap ==
    <<Sample(0, 0, 0, 30, 100, 0),
      Sample(1000, 1000, 0, 60, 100, 0),
      Sample(2000, 2000, 0, 90, 100, 0),
      Sample(3013, 3013, 0, 120, 100, 0)>>

\* A closed lap: the last sample lies 82 mm past the first one
ClosedLap ==
    <<Sample(0, 0, 0, 30, 100, 0),
      Sample(200, 200, 0, 31, 100, 0),
      Sample(400, 400, 0, 32, 100, 0),
      Sample(600, 600, 0, 33, 100, 0),
      Sample(800, 800, 0, 34, 0, 100),
      Sample(1000, 1000, 0, 30, 0, 100),
      Sample(2000, 1000, 1000, 28, 50, 0),
      Sample(3000, 0, 1000, 29, 100, 0),
      Sample(4002, 82, 0, 30, 100, 0)>>

\* An open lap along a straight that runs toward negative y
DescentLap ==
    <<Sample(0, 0, 0, 30, 100, 0),
      Sample(1000, 0, -1000, 60, 100, 0),
      Sample(2000, 0, -2000, 90, 100, 0),
      Sample(3000, 0, -3000, 120, 100, 0)>>

\* The tracks constructed by the program (PPOTrainer.__init__ line 407)
Tracks ==
    <<MonacoTrackKnowledge(HairpinLap), MonacoTrackKnowledge(ClosedLap),
      MonacoTrackKnowledge(SprintLap), MonacoTrackKnowledge(DescentLap)>>

\* logs/monaco_true_boundaries.json for the hairpin
HairpinBoundaries ==
    [left_boundary |-> <<[x |-> -26000, y |-> 3000], [x |-> -24000, y |-> 3000],
                         [x |-> -26000, y |-> 9000]>>,
     right_boundary |-> <<[x |-> -26000, y |-> -3000], [x |-> -20000, y |-> -3000],
                          [x |-> -18000, y |-> 7000], [x |-> -26000, y |-> 15000]>>]

\* What an environment is constructed on: a track and the boundary file's
\* content (<<>>: no file)
Configs ==
    {[track |-> 1, boundary_data |-> <<>>],
     [track |-> 1, boundary_data |-> <<HairpinBoundaries>>],
     [track |-> 2, boundary_data |-> <<>>],
     [track |-> 3, boundary_data |-> <<>>],
     [track |-> 4, boundary_data |-> <<>>]}

\* The action vectors the policy sends: coast, full throttle, full brake,
\* throttle with full left lock, and a vector outside [-1, 1]^3
ActionSpace ==
    {<<-1000, -1000, 0>>, <<1000, -1000, 0>>, <<-1000, 1000, 0>>,
     <<1000, -1000, 1000>>, <<2500, -3000, 1500>>}

\* The policy holds an action for this many steps
SwitchPeriod == 280

\* Steps taken on one environment between two resets, at most
StepCap == 562

\* The caller aborts a rollout only at a multiple of this many steps
AbortPeriod == 50

\* The car is followed while within this distance (mm) of every sample
Reach == 31000

\* time.time() at a reset, and at a later step of the episode, in ticks
ResetClock == {1000}

StepClock == {1003, 1500, 12000}

----------------------------------------------------------------------------
(* train.py: TrainingConfig                                                *)

\* -50.0, in hundredths
crash_penalty == -5000

\* 200.0, in hundredths
completion_reward == 20000

\* 1.0 per metre, in hundredths
progress_reward == 100

\* 0.01 per km/h, in hundredths
speed_reward == 1

\* -0.01, in hundredths
time_penalty == -1

\* max_steps_per_episode, as configured for the model
max_steps_per_episode == 557

(* train.py: RacingEnv                                                     *)

\* RacingEnv.__init__ on a track (a reference into Tracks) and the boundary
\* file's content, <<>> when the file does not exist
RacingEnv(track, boundary_data) ==
    [track |-> track,
     has_boundaries |-> boundary_data # <<>>,
     left_boundary |-> IF boundary_data # <<>> THEN boundary_data[1].left_boundary ELSE <<>>,
     right_boundary |-> IF boundary_data # <<>> THEN boundary_data[1].right_boundary ELSE <<>>,
     state |-> CarState,
     steps |-> 0,
     last_distance |-> 0,
     best_distance |-> 0,
     lap_start_time |-> 0,
     consecutive_no_progress |-> 0,
     position_history |-> <<>>,
     last_x |-> 0,
     last_y |-> 0,
     total_physical_distance |-> 0]

\* _get_observation: the 12 features, each as the numerator of its
\* normalised value (speed/100, pos_error/20, heading/pi, distance/3300,
\* turn_dist/500, turn_severity in thousandths, optimal_speed/100,
\* target_speed/100, throttle/100, brake/100, steering, tire_temp/100)
get_observation(self) ==
    With(Tracks[self.track], LAMBDA track :
    With(get_nearest_line_point(track, self.state.x, self.state.y), LAMBDA nearest :
    With(Sqrt(Hyp2(self.state.x - nearest.x, self.state.y - nearest.y)), LAMBDA pos_error :
    With(next_turn_of(track, self.state.distance, 200000), LAMBDA next_turn :
    With(track.telemetry[get_telemetry_index(track, self.state.distance)].speed,
         LAMBDA optimal_speed :
        <<self.state.speed, pos_error, self.state.heading, self.state.distance,
          IF next_turn # <<>>
          THEN next_turn[1].braking_point - self.state.distance ELSE 1000000,
          IF next_turn # <<>> THEN 1000 - (next_turn[1].apex_speed * 1000) \div 250 ELSE 0,
          optimal_speed,
          IF next_turn # <<>> THEN next_turn[1].entry_speed ELSE 250,
          self.state.throttle, self.state.brake, self.state.steering,
          self.state.tire_temp>>)))))

\* The vehicle state reset() leaves (lines 138-160): the fields it assigns;
\* vx, vy, tire_temp and fuel_kg keep their values
StartState(state, racing_line) ==
    With(racing_line[1], LAMBDA first :
    With(racing_line[Min(5, Len(racing_line) - 1) + 1], LAMBDA second :
        [state EXCEPT
            !.x = first.x,
            !.y = first.y,
            !.heading = Arctan2(second.y - first.y, second.x - first.x),
            !.speed = 8300,
            !.gear = 2,
            !.rpm = 6000,
            !.throttle = 0,
            !.brake = 0,
            !.steering = 0,
            !.distance = 0,
            !.lap_time = 0]))

\* reset() without line 166, which clears the stuck counter
ResetKeepingCounter(self, now) ==
    With(StartState(self.state, Tracks[self.track].racing_line), LAMBDA state :
        [self EXCEPT
            !.state = state,
            !.steps = 0,
            !.last_distance = 0,
            !.best_distance = 0,
            !.lap_start_time = now,
            !.position_history = <<>>,
            !.last_x = state.x,
            !.last_y = state.y,
            !.total_physical_distance = 0])

\* RacingEnv.reset at wall-clock reading now: the environment after it
reset(self, now) ==
    With(StartState(self.state, Tracks[self.track].racing_line), LAMBDA state :
        [self EXCEPT
            !.state = state,
            !.steps = 0,
            !.last_distance = 0,
            !.best_distance = 0,
            !.lap_start_time = now,
            !.consecutive_no_progress = 0,
            !.position_history = <<>>,
            !.last_x = state.x,
            !.last_y = state.y,
            !.total_physical_distance = 0])

\* min over a boundary polyline of the squared distance to (x, y), in
\* square centimetres: boundary points lie further off than the racing line
RECURSIVE MinBoundaryDist(_, _, _, _, _)
MinBoundaryDist(boundary, x, y, i, min_dist) ==
    IF i > Len(boundary) THEN min_dist
    ELSE With(Hyp2(Quot(x - boundary[i].x, 10), Quot(y - boundary[i].y, 10)), LAMBDA dist :
             IF dist < min_dist
             THEN MinBoundaryDist(boundary, x, y, i + 1, dist)
             ELSE MinBoundaryDist(boundary, x, y, i + 1, min_dist))

\* The squared distance from the car to the racing-line point nearest to it
DistanceFromLine(self) ==
    With(get_nearest_line_point(Tracks[self.track], self.state.x, self.state.y),
         LAMBDA nearest : Hyp2(self.state.x - nearest.x, self.state.y - nearest.y))

\* _is_off_track with boundaries loaded (lines 289-307): further than 50
\* from both boundaries
OutsideBoundaries(self) ==
    \* a boundary equal to the left one is counted as the left one
    With(MinBoundaryDist(self.left_boundary, self.state.x, self.state.y, 1, Inf2),
         LAMBDA left :
    With(IF self.right_boundary = self.left_boundary
         THEN MinBoundaryDist(self.right_boundary, self.state.x, self.state.y, 1, left)
         ELSE left, LAMBDA min_dist_left :
    With(IF self.right_boundary = self.left_boundary THEN Inf2
         ELSE MinBoundaryDist(self.right_boundary, self.state.x, self.state.y, 1, Inf2),
         LAMBDA min_dist_right :
        min_dist_left > 5000 * 5000 /\ min_dist_right > 5000 * 5000)))

\* _is_off_track with line 287 comparing by >= 25 in place of > 25
OffTrackFrom25(self) ==
    IF ~self.has_boundaries
    THEN DistanceFromLine(self) >= 25000 * 25000
    ELSE OutsideBoundaries(self)

\* _is_off_track
is_off_track(self) ==
    IF ~self.has_boundaries
    THEN DistanceFromLine(self) > 25000 * 25000
    ELSE OutsideBoundaries(self)

\* _calculate_reward's branches with completion tested before off-track
BranchCompletionFirst(self) ==
    IF self.state.distance >= Tracks[self.track].track_length THEN "completed"
    ELSE IF is_off_track(self) THEN "off_track"
    ELSE IF self.consecutive_no_progress > 500 THEN "stuck"
    ELSE IF self.state.speed < 0 THEN "backwards"
    ELSE IF self.steps >= max_steps_per_episode THEN "timeout"
    ELSE "ongoing"

\* _calculate_reward's branches with the timeout one step late
BranchLateTimeout(self) ==
    IF is_off_track(self) THEN "off_track"
    ELSE IF self.consecutive_no_progress > 500 THEN "stuck"
    ELSE IF self.state.speed < 0 THEN "backwards"
    ELSE IF self.state.distance >= Tracks[self.track].track_length THEN "completed"
    ELSE IF self.steps > max_steps_per_episode THEN "timeout"
    ELSE "ongoing"

\* The branch of _calculate_reward that returns
Branch(self) ==
    IF is_off_track(self) THEN "off_track"
    ELSE IF self.consecutive_no_progress > 500 THEN "stuck"
    ELSE IF self.state.speed < 0 THEN "backwards"
    ELSE IF self.state.distance >= Tracks[self.track].track_length THEN "completed"
    ELSE IF self.steps >= max_steps_per_episode THEN "timeout"
    ELSE "ongoing"

\* The reward and info of a non-terminal step (_calculate_reward lines 366-395)
RunningReward(self, progress_this_step) ==
    With(DistanceFromLine(self), LAMBDA distance_from_line :
        [reward |->
             (IF progress_this_step > 0
              THEN (progress_this_step * progress_reward) \div 1000 ELSE 0)
             + (IF distance_from_line < 15000 * 15000
                THEN (self.state.speed * 36 * speed_reward) \div 10000 ELSE 0)
             + (IF distance_from_line < 10000 * 10000 THEN 10
                ELSE IF distance_from_line < 20000 * 20000 THEN 5 ELSE 0)
             + (IF Abs(self.state.steering) > 800 THEN -2 ELSE 0)
             + (IF self.state.brake > 80 THEN -1 ELSE 0)
             + time_penalty,
         done |-> FALSE,
         info |-> [distance |-> self.state.distance,
                   speed |-> (self.state.speed * 36) \div 10,
                   distance_from_line |-> Sqrt(distance_from_line)]])

\* _calculate_reward, reading the wall clock as now where the code reads it:
\* [reward, done, info]
calculate_reward(self, step_distance, progress_this_step, now) ==
    With(Branch(self), LAMBDA branch :
        CASE branch = "off_track" ->
               [reward |-> crash_penalty, done |-> TRUE,
                info |-> [crash |-> TRUE, crash_reason |-> "off_track"]]
          [] branch = "stuck" ->
               [reward |-> crash_penalty, done |-> TRUE,
                info |-> [crash |-> TRUE, crash_reason |-> "stuck"]]
          [] branch = "backwards" ->
               [reward |-> Quot(crash_penalty * 5, 10), done |-> TRUE,
                info |-> [crash |-> TRUE, crash_reason |-> "backwards"]]
          [] branch = "completed" ->
               With(now - self.lap_start_time, LAMBDA lap_time :
                   [reward |-> IF lap_time < 10000
                               THEN completion_reward + (10000 - lap_time) * 2
                               ELSE completion_reward,
                    done |-> TRUE,
                    info |-> [completed |-> TRUE, lap_time |-> lap_time]])
          [] branch = "timeout" ->
               [reward |-> (self.state.distance * 50 * 100)
                           \div Tracks[self.track].track_length,
                done |-> TRUE,
                info |-> [timeout |-> TRUE]]
          [] OTHER -> RunningReward(self, progress_this_step))

\* The step without lines 249-251: the distance update_car_state integrated
KeepIntegrated(track, moved) == moved

\* step lines 249-251: the track-relative distance becomes that of the
\* racing-line point nearest to the position after the move
ReAnchor(track, moved) ==
    [moved EXCEPT !.distance = get_nearest_line_point(track, moved.x, moved.y).distance]

\* The action's first two components read as pedal fractions in [0, 1]
ControlsUnshifted(action) ==
    <<Clip((action[1] * 100) \div 1000, 0, 100),
      Clip((action[2] * 100) \div 1000, 0, 100),
      Clip(action[3], -1000, 1000)>>

\* The controls an action vector is mapped to (step lines 225-227)
Controls(action) ==
    <<Clip(((action[1] + 1000) * 50) \div 1000, 0, 100),
      Clip(((action[2] + 1000) * 50) \div 1000, 0, 100),
      Clip(action[3], -1000, 1000)>>

\* RacingEnv.step up to the call of _calculate_reward (lines 224-270): the
\* environment after it, with the two arguments of that call
Advance(self, action) ==
    With(update_car_state(self.state, Controls(action)[1], Controls(action)[2],
                          Controls(action)[3]), LAMBDA moved :
    With(ReAnchor(Tracks[self.track], moved), LAMBDA state :
    With(Hyp2(state.x - self.last_x, state.y - self.last_y), LAMBDA physical_movement :
        [self |-> [self EXCEPT
                      !.state = state,
                      !.position_history =
                          IF self.steps % 10 = 0
                          THEN Append(@, [x |-> moved.x, y |-> moved.y,
                                          speed |-> (moved.speed * 36) \div 10,
                                          distance |-> moved.distance])
                          ELSE @,
                      !.total_physical_distance = @ + Sqrt(physical_movement),
                      !.consecutive_no_progress =
                          IF physical_movement < 10 * 10 THEN @ + 1 ELSE 0,
                      !.last_x = state.x,
                      !.last_y = state.y,
                      !.best_distance = Max(@, state.distance),
                      !.last_distance = state.distance,
                      !.steps = @ + 1],
         step_distance |-> Sqrt(Hyp2(moved.x - self.state.x, moved.y - self.state.y)),
         progress_this_step |-> state.distance - self.last_distance])))

\* RacingEnv.step: the environment after it and the returned reward, done
\* and info; the returned observation is get_observation of that environment
step(self, action, now) ==
    With(Advance(self, action), LAMBDA adv :
    With(calculate_reward(adv.self, adv.step_distance, adv.progress_this_step, now),
         LAMBDA r :
        [self |-> adv.self, reward |-> r.reward, done |-> r.done, info |-> r.info]))

----------------------------------------------------------------------------
(* The environment driven by a caller                                      *)

VARIABLES
    env,        \* the RacingEnv object, with its CarState
    reward,     \* the reward last returned by step()
    done,       \* the terminal flag last returned by step()
    info,       \* the info dict last returned by step(), <<>> before the first
    car,        \* the CarState of a simulation run without an environment
    knowledge,  \* a MonacoTrackKnowledge object loaded on its own, <<>>: none
    answer,     \* the last call on knowledge with what it returned, <<>>: none
    calls,      \* the calls on knowledge before the last, oldest first
    fleet       \* environments constructed on one shared track, <<>>: none

vars == <<env, reward, done, info, physics, car, knowledge, answer, calls, fleet>>

\* The environment runs on the default parameter set and on Tracks; nothing
\* is simulated or loaded beside it
NoBench ==
    /\ physics = CarPhysics
    /\ car = CarState
    /\ knowledge = <<>>
    /\ answer = <<>>
    /\ calls = <<>>
    /\ fleet = <<>>

\* The observation last returned, by reset() or by step()
obs == get_observation(env)

\* The car is within Reach of every racing-line sample on both axes
InReach(self) ==
    \A i \in 1..Len(Tracks[self.track].racing_line) :
        /\ Abs(self.state.x - Tracks[self.track].racing_line[i].x) <= Reach
        /\ Abs(self.state.y - Tracks[self.track].racing_line[i].y) <= Reach

Init ==
    /\ \E c \in Configs : env = RacingEnv(c.track, c.boundary_data)
    /\ reward = 0
    /\ done = FALSE
    /\ info = <<>>
    /\ NoBench

\* env.reset(), after a terminal step or to abort a rollout
Reset ==
    /\ done \/ env.steps % AbortPeriod = 0
    /\ \E now \in ResetClock : env' = reset(env, now)
    /\ reward' = 0
    /\ done' = FALSE
    /\ info' = info
    /\ UNCHANGED <<physics, car, knowledge, answer, calls, fleet>>

\* env.step(action); the clock is read on the completion branch alone
Step ==
    \E action \in ActionSpace :
        /\ env.steps < StepCap
        /\ InReach(env)
        /\ \/ env.steps % SwitchPeriod = 0
           \/ Controls(action) = <<env.state.throttle, env.state.brake, env.state.steering>>
        /\ \E adv \in {Advance(env, action)} :
           \E now \in IF Branch(adv.self) = "completed" THEN StepClock ELSE {0} :
           \E r \in {calculate_reward(adv.self, adv.step_distance,
                                      adv.progress_this_step, now)} :
               /\ env' = adv.self
               /\ reward' = r.reward
               /\ done' = r.done
               /\ info' = r.info
               /\ UNCHANGED <<physics, car, knowledge, answer, calls, fleet>>

Next == Reset \/ Step

Spec == Init /\ [][Next]_vars

----------------------------------------------------------------------------
(* What the last step returned                                             *)

\* A step has been taken since the environment was constructed or reset
Stepped == env.steps > 0

\* The kind of outcome an info dict carries
OutcomeOf(i) ==
    IF "crash" \in DOMAIN i THEN "crashed"
    ELSE IF "completed" \in DOMAIN i THEN "completed"
    ELSE IF "timeout" \in DOMAIN i THEN "timeout"
    ELSE "running"

Crashed(reason) ==
    Stepped /\ done /\ "crash" \in DOMAIN info /\ info.crash_reason = reason

Completed == Stepped /\ done /\ "completed" \in DOMAIN info

TimedOut == Stepped /\ done /\ "timeout" \in DOMAIN info

\* The racing line and the length of the track the environment runs on
Line == Tracks[env.track].racing_line

TrackLength == Tracks[env.track].track_length

\* The squared distance from the car to sample i of the racing line
LineDist(i) == Hyp2(env.state.x - Line[i].x, env.state.y - Line[i].y)

\* The termination conditions as the step evaluates them, on the state
\* after the move
OffTrackNow == is_off_track(env)

StuckNow == env.consecutive_no_progress > 500

BackwardsNow == env.state.speed < 0

PastEndNow == env.state.distance >= TrackLength

OutOfStepsNow == env.steps >= max_steps_per_episode

----------------------------------------------------------------------------
(* The claims                                                              *)

\* C1: of the termination conditions that hold on a step, the one earliest
\* in the order off-track, stuck, backwards, completion, timeout decides the
\* outcome and the reward the step returns.
C1_PriorityOrder ==
    Stepped =>
        /\ OffTrackNow => (Crashed("off_track") /\ reward = crash_penalty)
        /\ (~OffTrackNow /\ StuckNow) => (Crashed("stuck") /\ reward = crash_penalty)
        /\ (~OffTrackNow /\ ~StuckNow /\ BackwardsNow) => Crashed("backwards")
        /\ (~OffTrackNow /\ ~StuckNow /\ ~BackwardsNow /\ PastEndNow) => Completed
        /\ (~OffTrackNow /\ ~StuckNow /\ ~BackwardsNow /\ ~PastEndNow /\ OutOfStepsNow)
               => TimedOut

\* A car both off the track and past the track length, reported off-track
C1_OffTrackPastEnd ==
    Stepped /\ OffTrackNow /\ PastEndNow /\ Crashed("off_track")

\* The episode began with a reset
WasReset == env.lap_start_time \in ResetClock

\* C2: in a run of consecutive ticks with displacement below 0.01, without an
\* off-track condition, tick 500 of the run returns Crashed(stuck) and ticks
\* 1..499 do not.
C2_StuckOnTick500 ==
    (Stepped /\ WasReset /\ ~OffTrackNow) =>
        /\ env.consecutive_no_progress \in 1..499 => ~Crashed("stuck")
        /\ env.consecutive_no_progress = 500 => Crashed("stuck")

\* C3: without boundary data a step returns Crashed(off_track), with the crash
\* penalty, exactly when every racing-line sample is strictly more than 25
\* units from the position after the move.
C3_OffTrackBeyond25 ==
    (Stepped /\ ~env.has_boundaries) =>
        ((Crashed("off_track") /\ reward = crash_penalty)
             <=> \A i \in 1..Len(Line) : LineDist(i) > 25000 * 25000)

\* A car between 25 and 26 units off the line, reported off-track
C3_CrashWithin26 ==
    /\ ~env.has_boundaries
    /\ Crashed("off_track")
    /\ \E i \in 1..Len(Line) : LineDist(i) <= 26000 * 26000

\* The car is exactly at the last sample, with distance >= track length
AtLastSample ==
    /\ env.state.x = Line[Len(Line)].x
    /\ env.state.y = Line[Len(Line)].y
    /\ env.state.distance >= TrackLength

\* C4: a step taken with the car exactly at the last racing-line sample, with
\* distance >= track length, returns Completed, whatever the action and the
\* track.
C4_CompletedFromLastSample ==
    [][(AtLastSample /\ env'.steps = env.steps + 1)
           => (done' /\ "completed" \in DOMAIN info')]_vars

\* C5: the step that brings the step count to the maximum returns a terminal
\* result, and when no crash or completion condition holds on it, the result
\* is TimedOut with reward (distance / track length) * 50.
C5_TerminatesByMaxSteps ==
    /\ OutOfStepsNow => done
    /\ (/\ env.steps = max_steps_per_episode
        /\ ~OffTrackNow
        /\ env.consecutive_no_progress < 500
        /\ ~BackwardsNow
        /\ ~PastEndNow)
           => /\ TimedOut
              /\ reward * TrackLength <= env.state.distance * 5000
              /\ env.state.distance * 5000 < (reward + 1) * TrackLength

\* A timeout with partial credit
C5_TimedOutMidTrack ==
    TimedOut /\ env.steps = max_steps_per_episode /\ env.state.distance > 0 /\ reward > 0

\* C6: after a step of an episode has returned a terminal result, every later
\* step of the episode returns a terminal result of the same kind.
C6_TerminalAbsorbing ==
    [][(Stepped /\ done /\ env'.steps = env.steps + 1)
           => (done' /\ OutcomeOf(info') = OutcomeOf(info))]_vars

\* C7: after a step the track-relative distance is the distance of a
\* racing-line sample nearest to the position after the move.
C7_DistanceReAnchored ==
    Stepped =>
        \E i \in 1..Len(Line) :
            /\ env.state.distance = Line[i].distance
            /\ \A j \in 1..Len(Line) : LineDist(i) <= LineDist(j)

\* A car that has travelled 10 units further than its track-relative distance
C7_TravelledOffLine ==
    Stepped /\ env.total_physical_distance > env.state.distance + 10000

\* The environment has been reset and not stepped since
JustReset == env.steps = 0 /\ WasReset

\* A freshly constructed environment, on the same track and boundary file,
\* after a reset at the same clock reading
FreshReset ==
    reset(RacingEnv(env.track,
                    IF env.has_boundaries
                    THEN <<[left_boundary |-> env.left_boundary,
                            right_boundary |-> env.right_boundary]>>
                    ELSE <<>>),
          env.lap_start_time)

\* Position, heading, speed, gear, engine speed, controls, distance, lap
\* time, step count, stuck counter, progress trackers, position history
Restored(self) ==
    <<self.state.x, self.state.y, self.state.heading, self.state.speed, self.state.gear,
      self.state.rpm, self.state.throttle, self.state.brake, self.state.steering,
      self.state.distance, self.state.lap_time, self.steps, self.consecutive_no_progress,
      self.last_distance, self.best_distance, self.last_x, self.last_y,
      self.total_physical_distance, self.position_history>>

\* C8: reset() leaves the vehicle state and the trackers as a reset of a
\* freshly constructed environment does, it returns the same observation,
\* and every first step from it ends in the same environment with the same
\* result (and so, step by step, every action sequence does).
C8_ResetRestores ==
    JustReset =>
        /\ Restored(env) = Restored(FreshReset)
        /\ get_observation(env) = get_observation(FreshReset)
        /\ \A action \in ActionSpace :
               step(env, action, 0) = step(FreshReset, action, 0)

\* A reset right after a terminal result, with the stuck counter and the
\* velocity components of the ended episode behind it
C8_ResetAfterTerminal ==
    /\ JustReset
    /\ info # <<>>
    /\ OutcomeOf(info) # "running"
    /\ env.state.vx # 0

\* C9: on completion the lap_time in the outcome is the simulated time of
\* the episode, the number of steps since the reset times the timestep.
C9_LapTimeIsSimulated ==
    Completed => info.lap_time = env.steps

\* C13: in every state of an episode, after reset() and after each step,
\* whatever the steering, the heading is in [0, 2*pi).
C13_HeadingWrapped ==
    WasReset => (0 <= env.state.heading /\ env.state.heading < TwoPi)

\* Action vectors a policy may emit beyond those followed: mid-range values
\* and components on either side of [-1, 1]
ActionProbes ==
    ActionSpace \cup {<<0, 0, -500>>, <<-500, 400, -2500>>, <<400, -500, 250>>,
                      <<-1001, 1001, 1001>>}

\* The controls the car state holds
StoredControls(state) == <<state.throttle, state.brake, state.steering>>

\* C26: the controls stored by a step are throttle = (a0 + 1) * 50 and
\* brake = (a1 + 1) * 50 clamped to [0, 100] and steering = a2 clamped to
\* [-1, 1], for every action vector, in range or not; a0 = -1 stores
\* throttle 0 and a0 = 1 stores throttle 100.  The ranges are stated of
\* every step taken, the mapping of every probe vector wherever the policy
\* is free to choose its action.
C26_ControlsClamped ==
    /\ Stepped => /\ 0 <= env.state.throttle /\ env.state.throttle <= 100
                  /\ 0 <= env.state.brake /\ env.state.brake <= 100
                  /\ -1000 <= env.state.steering /\ env.state.steering <= 1000
    /\ env.steps % SwitchPeriod = 0 =>
       \A a \in ActionProbes :
           With(Advance(env, a).self.state, LAMBDA state :
               /\ state.throttle = Max(0, Min(100, (a[1] + 1000) \div 20))
               /\ state.brake = Max(0, Min(100, (a[2] + 1000) \div 20))
               /\ state.steering = Max(-1000, Min(1000, a[3]))
               /\ a[1] = -1000 => state.throttle = 0
               /\ a[1] = 1000 => state.throttle = 100)

\* A step has stored what the vector (2.5, -3, 1.5) maps to: every component
\* at the end of its range
C26_OutOfRangeActionStored ==
    /\ Stepped
    /\ StoredControls(env.state) = <<100, 0, 1000>>
    /\ StoredControls(Advance(env, <<2500, -3000, 1500>>).self.state) = <<100, 0, 1000>>

\* C28: no step ends the episode as a backwards crash, and no terminal step
\* returns the reward crash_penalty * 0.5.
C28_NeverBackwards ==
    /\ ~Crashed("backwards")
    /\ Stepped /\ done => reward # Quot(crash_penalty * 5, 10)

\* A step under full brake has left the car at standstill, where the engine
\* and brake forces alone would take the speed below zero
C28_BrakedAtStandstill ==
    /\ Stepped
    /\ env.state.speed = 0
    /\ env.state.brake = 100
    /\ UpdateWithoutClamp(env.state, 0, 100, 0).speed < 0

\* C29: after every step the track-relative distance is the distance of a
\* racing-line sample and at most the track length; the completion test
\* holds only when the sample nearest to the car carries the greatest
\* distance; best_distance does not decrease over a step and is at least the
\* current distance.
C29_DistanceOnTheLine ==
    [][env'.steps = env.steps + 1 =>
          /\ \E i \in 1..Len(Line) : Line[i].distance = env'.state.distance
          /\ env'.state.distance <= TrackLength
          /\ env'.state.distance >= TrackLength =>
                 get_nearest_line_point(Tracks[env.track], env'.state.x,
                                        env'.state.y).distance
                     = MaxDistance(Line, 1)
          /\ env'.best_distance >= env.best_distance
          /\ env'.best_distance >= env'.state.distance]_vars

\* A step has anchored the car to a sample behind the farthest one it had
\* reached in the episode
C29_AnchoredBehindBest ==
    Stepped /\ env.best_distance > env.state.distance

----------------------------------------------------------------------------
(* The simulator driven on its own (f1_physics_simulator.py: main, and any *)
(* caller that constructs F1PhysicsSimulator(physics))                     *)

\* The parameter sets a simulator is constructed with: the default 8-speed
\* gearbox, a 3-speed one and a 9-speed one
ParameterSets ==
    {CarPhysics,
     [gear_ratios |-> <<350, 280, 220>>],
     [gear_ratios |-> <<350, 300, 260, 220, 180, 150, 130, 115, 100>>]}

\* The speeds (mm/s) a simulation starts from
StartSpeeds == {0, 300, 8300, 30000, 64000, 93000}

\* The throttle, brake and steering passed to update_car_state: full
\* throttle, full brake, steering inside the dead-zone, throttle against
\* brake with full right lock, and values outside the ranges
ControlSpace ==
    {<<100, 0, 0>>, <<0, 100, 0>>, <<0, 0, 5>>, <<100, 100, -1000>>, <<150, -20, 1500>>}

\* The caller holds its inputs for this many ticks
HoldTicks == 25

\* Ticks of one simulation run, at most
DriveTicks == 40

PhysicsInit ==
    /\ physics \in ParameterSets
    /\ \E speed \in StartSpeeds, gear \in 1..Len(physics.gear_ratios) :
           car = [CarState EXCEPT !.speed = speed, !.gear = gear]
    /\ env = RacingEnv(1, <<>>)
    /\ reward = 0
    /\ done = FALSE
    /\ info = <<>>
    /\ knowledge = <<>>
    /\ answer = <<>>
    /\ calls = <<>>
    /\ fleet = <<>>

\* state = sim.update_car_state(state, throttle, brake, steering)
Drive ==
    \E c \in ControlSpace :
        /\ car.lap_time < DriveTicks
        /\ \/ car.lap_time % HoldTicks = 0
           \/ <<Clip(c[1], 0, 100), Clip(c[2], 0, 100), Clip(c[3], -1000, 1000)>>
                  = <<car.throttle, car.brake, car.steering>>
        /\ car' = update_car_state(car, c[1], c[2], c[3])
        /\ UNCHANGED <<env, reward, done, info, physics, knowledge, answer, calls, fleet>>

PhysicsNext == Drive

PhysicsSpec == PhysicsInit /\ [][PhysicsNext]_vars

\* C11: after every advance the speed is >= 0, and it is exactly 0 when the
\* prior speed plus the tick's change of speed, under the inputs of the
\* advance, is below zero.
C11_SpeedNonNegative ==
    [][car'.lap_time = car.lap_time + 1 =>
           /\ car'.speed >= 0
           /\ car.speed + SpeedChange([car EXCEPT !.throttle = car'.throttle,
                                                  !.brake = car'.brake]) < 0
                  => car'.speed = 0]_vars

\* A car that moved and was braked to a standstill
C11_BrakedToStandstill ==
    car.speed = 0 /\ car.brake = 100 /\ car.distance > 0

\* Weight plus downforce at a speed (update_car_state line 168), in newtons
NormalForce(speed) == (mass * gravity) \div 100 + calculate_aerodynamic_forces(speed).downforce

\* The traction cap at a speed: grip * normal force, the grip rising linearly
\* from 0.85 at standstill to tire_grip_coefficient at 100 km/h and staying
\* there
TractionCap(speed) ==
    IF speed * 36 < 1000000
    THEN (NormalForce(speed)
          * (8500 + ((tire_grip_coefficient * 100 - 8500) * ((speed * 36) \div 10))
                    \div 100000)) \div 10000
    ELSE (NormalForce(speed) * tire_grip_coefficient) \div 100

\* The engine force of the next tick under throttle input t
NextEngineForce(t) ==
    EngineForce([car EXCEPT !.throttle = Clip(t, 0, 100)], NormalForce(car.speed)).engine_force

\* C25: the engine force of a tick is at most the traction cap at the
\* pre-update speed (full grip at or above 100 km/h, the interpolated grip
\* below), and it is zero under zero throttle.
C25_EngineForceCapped ==
    \A c \in ControlSpace :
        /\ NextEngineForce(c[1]) <= TractionCap(car.speed)
        /\ Clip(c[1], 0, 100) = 0 => NextEngineForce(c[1]) = 0

\* A car driven to a state above 100 km/h where full throttle asks for more
\* than the tyres transmit: the engine force is the cap
C25_TractionLimitedAtSpeed ==
    /\ car.lap_time > 0
    /\ car.speed * 36 >= 1000000
    /\ NextEngineForce(100) = TractionCap(car.speed)
    /\ EngineForceUncapped([car EXCEPT !.throttle = 100], NormalForce(car.speed)).engine_force
           > TractionCap(car.speed)

\* C12: for every parameter set and every run of advances from a gear in
\* 1..len(gear_ratios), the gear stays in 1..len(gear_ratios), changes by at
\* most one per tick, goes up only when the tick's engine speed is above 95%
\* of max and down only when it is below 50% of max.
C12_GearStaysValid ==
    [][car'.lap_time = car.lap_time + 1 =>
           /\ car'.gear \in 1..Len(physics.gear_ratios)
           /\ Abs(car'.gear - car.gear) <= 1
           /\ car'.gear = car.gear + 1 => car'.rpm * 100 > max_rpm * 95
           /\ car'.gear = car.gear - 1 => car'.rpm * 100 < max_rpm * 50]_vars

----------------------------------------------------------------------------
(* The track knowledge loaded on its own from a reference lap, and queried *)

\* Samples of a reference lap
LapLen == 42

\* The sample where the lap's speed dips
Dip == window + 1

\* The engaged-brake samples of a lap: none; a run that ends just before the
\* dip; two runs before the dip; a run from the first sample and a run
\* before the dip; a run before the dip and a run to the last sample; a run
\* far before the dip; a run after the dip; a run across the dip
BrakePatterns ==
    {{}, 15..19, (12..13) \cup (17..19), (1..3) \cup (17..19),
     (17..19) \cup (40..LapLen), 1..2, 25..27, 19..23}

\* The shapes of the reference laps: the speed at the dip, whether the next
\* sample repeats that speed, whether the car stands still between the two
\* (same position and distance), the speed window samples after the dip,
\* whether the last sample lies on the first, and the brake pattern
LapShapes ==
    [low : {80, 160}, plateau : BOOLEAN, stall : BOOLEAN, tail : {200, 60},
     closed : BOOLEAN, brakes : BrakePatterns]

\* Sample i of the lap of shape c: 10 units of distance per sample, out
\* along y = 0 and back along y = 1, positions 1 apart
LapSample(c, i) ==
    With(IF c.stall /\ i > Dip THEN i - 2 ELSE i - 1, LAMBDA n :
        Sample(n * 10000,
               IF c.closed /\ i = LapLen THEN 0
               ELSE IF n < Dip THEN n * 1000 ELSE (2 * Dip - 1 - n) * 1000,
               IF c.closed /\ i = LapLen THEN 0
               ELSE IF n < Dip THEN 0 ELSE 1000,
               IF i = Dip \/ (i = Dip + 1 /\ c.plateau) THEN c.low
               ELSE IF i = Dip + window THEN c.tail
               ELSE 200,
               IF i \in c.brakes THEN 0 ELSE 100,
               IF i \in c.brakes THEN 100 ELSE 0))

Lap(c) == [i \in 1..LapLen |-> LapSample(c, i)]

\* Where get_nearest_line_point is asked, relative to a sample: on it, half
\* way to the next sample of the out leg, and beside it
QueryOffsets == {<<0, 0>>, <<500, 0>>, <<0, 300>>}

\* Where get_upcoming_turn, get_track_section_info and
\* get_optimal_speed_and_angle are asked
QueryDistances == {0, 60000, 100000, 199999, 200000, 200001, 210000, 500000}

\* The lookaheads get_track_section_info is asked with
Lookaheads == {default_lookahead, 50000}

\* A sample of a file that carries no distance
RawSample(x, y, speed) ==
    [x |-> x, y |-> y, z |-> 0, speed |-> speed, throttle |-> 100, brake |-> 0]

\* Files with no lap in them: no sample, one sample, and three samples
\* taken at one position
DegenerateLaps ==
    {<<>>,
     <<RawSample(0, 0, 80)>>,
     <<RawSample(5000, 5000, 200), RawSample(5000, 5000, 120),
       RawSample(5000, 5000, 200)>>}

TrackInit ==
    /\ \E data \in {Lap(c) : c \in LapShapes} \cup DegenerateLaps :
           knowledge = Load(data)
    /\ answer = <<>>
    /\ calls = <<>>
    /\ env = RacingEnv(1, <<>>)
    /\ reward = 0
    /\ done = FALSE
    /\ info = <<>>
    /\ physics = CarPhysics
    /\ car = CarState
    /\ fleet = <<>>

\* The calls of get_track_section_info after which two more calls are
\* followed: another query, then the same call again
RepeatedArgs == {<<0, default_lookahead>>, <<200000, default_lookahead>>}

\* No call has been made on the object
FirstCall == Constructed(knowledge) /\ answer = <<>>

\* One call has been made, a get_track_section_info of RepeatedArgs
SecondCall ==
    /\ Constructed(knowledge)
    /\ answer # <<>>
    /\ calls = <<>>
    /\ answer.call = "get_track_section_info"
    /\ answer.args \in RepeatedArgs

\* The call, its arguments and what it returned become the last call
Record(call, args, sample, result) ==
    /\ answer' = [call |-> call, args |-> args, sample |-> sample, result |-> result]
    /\ calls' = IF answer = <<>> THEN <<>> ELSE Append(calls, answer)
    /\ knowledge' = Queried(knowledge, call, args)
    /\ UNCHANGED <<env, reward, done, info, physics, car, fleet>>

\* knowledge.get_nearest_line_point(x, y); sample is the sample whose own
\* coordinates are asked, 0 when none; the result is the returned point's
\* 1-based index in the racing line.  Every such call is followed as the
\* first call on an object, and the one at the dip as a second call.
NearestLinePoint ==
    \E i \in 1..Len(knowledge.racing_line), off \in QueryOffsets :
        /\ FirstCall \/ (SecondCall /\ i = Dip /\ off = <<0, 0>>)
        /\ \E x \in {knowledge.racing_line[i].x + off[1]} :
           \E y \in {knowledge.racing_line[i].y + off[2]} :
               Record("get_nearest_line_point", <<x, y>>,
                      IF off = <<0, 0>> THEN i ELSE 0,
                      NearestIndex(knowledge, x, y))

\* knowledge.get_upcoming_turn(d); the result is the returned turn's 1-based
\* index in critical_turns, 0 for None
UpcomingTurn ==
    \E d \in QueryDistances :
        /\ FirstCall \/ (SecondCall /\ d \in {0, 500000})
        /\ Record("get_upcoming_turn", <<d>>, 0, get_upcoming_turn(knowledge, d))

\* knowledge.get_track_section_info(d, lookahead): as a first call, as a
\* second call, and as the third call that repeats the first
TrackSectionInfo ==
    \E d \in QueryDistances, lookahead \in Lookaheads :
        /\ \/ FirstCall
           \/ SecondCall /\ d = 210000 /\ lookahead = 50000
           \/ Constructed(knowledge) /\ Len(calls) = 1 /\ <<d, lookahead>> = calls[1].args
        /\ Record("get_track_section_info", <<d, lookahead>>, 0,
                  get_track_section_info(knowledge, d, lookahead))

\* knowledge.get_optimal_speed_and_angle(d)
OptimalSpeedAndAngle ==
    \E d \in QueryDistances :
        /\ FirstCall \/ (SecondCall /\ d = 500000)
        /\ Record("get_optimal_speed_and_angle", <<d>>, 0,
                  get_optimal_speed_and_angle(knowledge, d))

TrackNext == NearestLinePoint \/ UpcomingTurn \/ TrackSectionInfo \/ OptimalSpeedAndAngle

TrackSpec == TrackInit /\ [][TrackNext]_vars

\* The last call was this method
Asked(call) == answer # <<>> /\ answer.call = call

\* The squared distance from the point asked to sample j of the racing line
AskedDist(j) ==
    Hyp2(knowledge.racing_line[j].x - answer.args[1],
         knowledge.racing_line[j].y - answer.args[2])

\* C14: get_nearest_line_point asked at the coordinates of a racing-line
\* sample s returns s itself, at distance 0, for every sample of every line,
\* lines with two samples at one position included.
C14_NearestRoundTrip ==
    (Asked("get_nearest_line_point") /\ answer.sample # 0) =>
        /\ knowledge.racing_line[answer.result] = knowledge.racing_line[answer.sample]
        /\ AskedDist(answer.result) = 0

\* C15: get_nearest_line_point returns a racing-line point at the least
\* distance from the point asked, and of the points at that distance the
\* first in sequence order.
C15_NearestIsFirstMinimum ==
    Asked("get_nearest_line_point") =>
        /\ answer.result \in 1..Len(knowledge.racing_line)
        /\ \A j \in 1..Len(knowledge.racing_line) :
               /\ AskedDist(answer.result) <= AskedDist(j)
               /\ j < answer.result => AskedDist(answer.result) < AskedDist(j)

\* A point asked that lies off the line, equally near to two samples
C15_TieOffTheLine ==
    /\ Asked("get_nearest_line_point")
    /\ AskedDist(answer.result) > 0
    /\ \E j \in 1..Len(knowledge.racing_line) :
           j > answer.result /\ AskedDist(j) = AskedDist(answer.result)

\* The turns of the loaded object whose apex lies beyond distance d
TurnsBeyond(d) ==
    {t \in 1..Len(knowledge.critical_turns) : knowledge.critical_turns[t].apex_distance > d}

\* C16: get_upcoming_turn(d) returns a turn whose apex distance is the least
\* among the turns with apex distance strictly greater than d, and None
\* exactly when there is no such turn.
C16_UpcomingIsNextApex ==
    Asked("get_upcoming_turn") =>
        /\ answer.result = 0 <=> TurnsBeyond(answer.args[1]) = {}
        /\ answer.result # 0 =>
               /\ answer.result \in TurnsBeyond(answer.args[1])
               /\ \A t \in TurnsBeyond(answer.args[1]) :
                      knowledge.critical_turns[answer.result].apex_distance
                          <= knowledge.critical_turns[t].apex_distance

\* Asked at the apex of the first turn: the second turn is returned
C16_AskedAtAnApex ==
    /\ Asked("get_upcoming_turn")
    /\ answer.result = 2
    /\ knowledge.critical_turns[1].apex_distance = answer.args[1]

\* The reference lap the object was loaded from has non-decreasing distances
DistancesNonDecreasing ==
    \A i \in 1..(Len(knowledge.telemetry) - 1) :
        knowledge.telemetry[i].distance <= knowledge.telemetry[i + 1].distance

\* C17: for every reference lap with non-decreasing sample distances, laps
\* with consecutive samples of equal speed or equal distance included, the
\* apex distance of each derived turn is strictly less than that of the next.
C17_TurnsStrictlyOrdered ==
    DistancesNonDecreasing =>
        \A n \in 1..(Len(knowledge.critical_turns) - 1) :
            knowledge.critical_turns[n].apex_distance
                < knowledge.critical_turns[n + 1].apex_distance

\* The first samples of the maximal runs of samples with brake engaged
RunStarts ==
    {i \in 1..Len(knowledge.telemetry) :
        /\ knowledge.telemetry[i].brake # 0
        /\ i = 1 \/ knowledge.telemetry[i - 1].brake = 0}

\* The first sample of the n-th run in sample order
RunStart(n) == CHOOSE i \in RunStarts : Cardinality({j \in RunStarts : j < i}) = n - 1

\* C18: braking_zones holds one zone for every maximal run of samples with
\* brake engaged, in sample order, a run from the first sample and a run to
\* the last sample included; a zone starts at the distance of its run's first
\* sample and its entry speed is that sample's speed.
C18_OneZonePerBrakingRun ==
    /\ Len(knowledge.braking_zones) = Cardinality(RunStarts)
    /\ \A n \in 1..Cardinality(RunStarts) :
           n <= Len(knowledge.braking_zones) =>
               /\ knowledge.braking_zones[n].start_distance
                      = knowledge.telemetry[RunStart(n)].distance
               /\ knowledge.braking_zones[n].entry_speed
                      = knowledge.telemetry[RunStart(n)].speed

\* Sample k of the lap is in apex_points
IsApex(k) ==
    \E a \in 1..Len(knowledge.apex_points) :
        knowledge.apex_points[a]
            = [distance |-> knowledge.telemetry[k].distance, x |-> knowledge.telemetry[k].x,
               y |-> knowledge.telemetry[k].y, speed |-> knowledge.telemetry[k].speed]

\* C19: a sample that has 20 samples on either side is an apex exactly when
\* its speed is below 150 and is the least speed of the samples from 20
\* before it to 20 after it, both ends included.
C19_ApexIffWindowMinimum ==
    \A k \in (window + 1)..(Len(knowledge.telemetry) - window) :
        IsApex(k) <=>
            /\ knowledge.telemetry[k].speed < 150
            /\ knowledge.telemetry[k].speed
                   = MinSpeed(knowledge.telemetry, k - window, k + window)

\* The braking zones that start before an apex and end less than 100 units
\* before it
Qualifying(apex) ==
    {z \in 1..Len(knowledge.braking_zones) :
        /\ knowledge.braking_zones[z].start_distance < apex.distance
        /\ apex.distance < knowledge.braking_zones[z].end_distance + 100000}

\* The apexes that have such a zone, in sequence order
PairedApexes == SelectSeq(knowledge.apex_points, LAMBDA apex : Qualifying(apex) # {})

\* C20: critical_turns holds one turn for every apex that has a braking zone
\* with start < apex distance < end + 100, and none for the other apexes;
\* the turn's braking point is the start of the latest-starting of those
\* zones, the one nearest to the apex.
C20_TurnTakesNearestZone ==
    /\ Len(knowledge.critical_turns) = Len(PairedApexes)
    /\ \A n \in 1..Len(PairedApexes) :
           n <= Len(knowledge.critical_turns) =>
               /\ knowledge.critical_turns[n].apex_distance = PairedApexes[n].distance
               /\ \E z \in Qualifying(PairedApexes[n]) :
                      /\ knowledge.critical_turns[n].braking_point
                             = knowledge.braking_zones[z].start_distance
                      /\ \A y \in Qualifying(PairedApexes[n]) :
                             knowledge.braking_zones[y].start_distance
                                 <= knowledge.braking_zones[z].start_distance

\* The last call was this method and it returned a dict
Returned(call) == Asked(call) /\ "error" \notin DOMAIN answer.result

C22_OneLabelPerStrategy ==
    Returned("get_track_section_info") =>
        \A d \in QueryDistances, lookahead \in Lookaheads :
            With(get_track_section_info(knowledge, d, lookahead), LAMBDA other :
                (other.racing_line_strategy.strategy
                     = answer.result.racing_line_strategy.strategy)
                <=> (other.section_type = answer.result.section_type))

\* C23: a sample sequence that is empty, or whose track has length zero,
\* yields no object, so that no query on a constructed object fails on the
\* track length.
C23_DegenerateRejected ==
    /\ Constructed(knowledge) => knowledge.track_length > 0
    /\ Asked("get_track_section_info") => "error" \notin DOMAIN answer.result
    /\ Asked("get_optimal_speed_and_angle") => "error" \notin DOMAIN answer.result

\* The last sample of the reference lap
LastSample == knowledge.telemetry[Len(knowledge.telemetry)]

\* The last call asked for a distance beyond the last sample of a track of
\* positive length
BeyondTheLap ==
    /\ knowledge.track_length > 0
    /\ answer.args[1] > LastSample.distance

\* C27: asked for a distance beyond the last sample, get_track_section_info
\* and get_optimal_speed_and_angle return without raising, with the speed,
\* throttle and brake of the last sample, and the next turn and the
\* upcoming turn are None.
C27_BeyondEndUsesLastSample ==
    /\ (Asked("get_track_section_info") /\ BeyondTheLap) =>
           /\ "error" \notin DOMAIN answer.result
           /\ answer.result.next_turn = <<>>
           /\ answer.result.upcoming_turns = <<>>
           /\ answer.result.distance_to_next_turn = <<>>
           /\ Len(answer.result.speed_targets) > 0
           /\ \A k \in 1..Len(answer.result.speed_targets) :
                  /\ answer.result.speed_targets[k].distance = LastSample.distance
                  /\ answer.result.speed_targets[k].target_speed = LastSample.speed
                  /\ answer.result.speed_targets[k].recommended_throttle
                         = LastSample.throttle
                  /\ answer.result.speed_targets[k].recommended_brake = LastSample.brake
           /\ Len(answer.result.curvature_zones) = 1
           /\ answer.result.curvature_zones[1].start_distance = LastSample.distance
           /\ answer.result.curvature_zones[1].entry_speed = LastSample.speed
    /\ (Asked("get_optimal_speed_and_angle") /\ BeyondTheLap) =>
           /\ "error" \notin DOMAIN answer.result
           /\ answer.result.optimal_speed = LastSample.speed
           /\ answer.result.reference_throttle = LastSample.throttle
           /\ answer.result.reference_brake = LastSample.brake
           /\ answer.result.steering_angle = 0
           /\ answer.result.next_turn_info = <<>>
    /\ (Asked("get_upcoming_turn") /\ BeyondTheLap) => answer.result = 0

\* get_optimal_speed_and_angle asked beyond the end of a lap that ends under
\* braking and starts under throttle
C27_AskedBeyondTheEnd ==
    /\ Returned("get_optimal_speed_and_angle")
    /\ BeyondTheLap
    /\ answer.result.reference_brake = LastSample.brake
    /\ LastSample.brake # knowledge.telemetry[1].brake

\* C30: get_track_section_info takes as next turn only a turn whose apex is
\* beyond current_distance and at most lookahead beyond it; the strategy is
\* never corner_exit and the section type never apex_zone or corner_exit;
\* when the apex of the upcoming turn lies beyond the lookahead the result
\* is the no-turn case.
C30_NextTurnStrictlyAhead ==
    Returned("get_track_section_info") =>
        /\ answer.result.next_turn # <<>> =>
               /\ answer.result.next_turn[1].apex_distance > answer.args[1]
               /\ answer.result.next_turn[1].apex_distance
                      <= answer.args[1] + answer.args[2]
        /\ answer.result.racing_line_strategy.strategy # "corner_exit"
        /\ answer.result.section_type \notin {"apex_zone", "corner_exit"}
        /\ (\A n \in 1..Len(knowledge.critical_turns) :
                knowledge.critical_turns[n].apex_distance > answer.args[1]
                    => knowledge.critical_turns[n].apex_distance
                           > answer.args[1] + answer.args[2]) =>
               /\ answer.result.racing_line_strategy.strategy = "maximum_attack"
               /\ answer.result.section_type = "final_straight"
               /\ answer.result.distance_to_next_turn = <<>>
               /\ answer.result.next_turn = <<>>

\* A turn lies ahead, its apex beyond the lookahead: the no-turn case
C30_TurnBeyondLookahead ==
    /\ Returned("get_track_section_info")
    /\ get_upcoming_turn(knowledge, answer.args[1]) # 0
    /\ answer.result.next_turn = <<>>
    /\ answer.result.section_type = "final_straight"

----------------------------------------------------------------------------
(* Two environments constructed on one MonacoTrackKnowledge object, their  *)
(* reset() and step() calls interleaved by the caller (train.py: any code  *)
(* that constructs RacingEnv(track, config) twice with one track)          *)

\* What the environments of a fleet are constructed on
FleetConfigs == {c \in Configs : c.track \in {1, 2}}

\* The action vectors sent to them: throttle with full left lock, full brake
FleetActions == {<<1000, -1000, 1000>>, <<-1000, 1000, 0>>}

\* Calls made on one environment, at most
FleetCalls == 2

\* RacingEnv(track, config) as a member of the fleet: the object, what its
\* last call returned, and the calls made on it
Member(c) ==
    [config |-> c, env |-> RacingEnv(c.track, c.boundary_data),
     reward |-> 0, done |-> FALSE, info |-> <<>>, trace |-> <<>>]

\* One reset() or step() on a member
Called(member, entry) ==
    IF entry.call = "reset"
    THEN [member EXCEPT !.env = reset(member.env, entry.now),
                        !.reward = 0, !.done = FALSE,
                        !.trace = Append(@, entry)]
    ELSE With(step(member.env, entry.action, entry.now), LAMBDA r :
             [member EXCEPT !.env = r.self, !.reward = r.reward, !.done = r.done,
                            !.info = r.info, !.trace = Append(@, entry)])

\* The call with self.state one CarState object held by every environment:
\* what the call writes into it shows in all of them
CallOnSharedState(envs, i, entry) ==
    [j \in 1..Len(envs) |->
        IF j = i THEN Called(envs[i], entry)
        ELSE [envs[j] EXCEPT !.env.state = Called(envs[i], entry).env.state]]

\* A call on environment i: __init__ (lines 104-134) gives each environment
\* its own simulator, CarState and counters, and reset() and step() assign
\* attributes of self only
CallOn(envs, i, entry) == [envs EXCEPT ![i] = Called(envs[i], entry)]

\* The member after the calls of trace from the k-th on, made on it alone
RECURSIVE Alone(_, _, _)
Alone(member, trace, k) ==
    IF k > Len(trace) THEN member
    ELSE Alone(Called(member, trace[k]), trace, k + 1)

FleetInit ==
    /\ \E c \in FleetConfigs :
           /\ fleet = <<Member(c), Member(c)>>
           /\ knowledge = Tracks[c.track]
    /\ answer = <<>>
    /\ calls = <<>>
    /\ env = RacingEnv(1, <<>>)
    /\ reward = 0
    /\ done = FALSE
    /\ info = <<>>
    /\ physics = CarPhysics
    /\ car = CarState

\* The call enters the fleet; its queries go to the shared track
\* (_get_observation, train.py:182-202)
FleetCall(i, entry) ==
    /\ Len(fleet[i].trace) < FleetCalls
    /\ fleet' = CallOn(fleet, i, entry)
    /\ knowledge' = Queried(knowledge, "get_track_section_info",
                            <<fleet'[i].env.state.distance, default_lookahead>>)
    /\ UNCHANGED <<env, reward, done, info, physics, car, answer, calls>>

\* fleet[i].reset()
FleetReset ==
    \E i \in 1..Len(fleet), now \in ResetClock :
        FleetCall(i, [call |-> "reset", action |-> <<>>, now |-> now])

\* fleet[i].step(action)
FleetStep ==
    \E i \in 1..Len(fleet), action \in FleetActions :
    \E now \in IF Branch(Advance(fleet[i].env, action).self) = "completed"
                THEN StepClock ELSE {0} :
        FleetCall(i, [call |-> "step", action |-> action, now |-> now])

FleetNext == FleetReset \/ FleetStep

FleetSpec == FleetInit /\ [][FleetNext]_vars

====
